---------------------------- MODULE Spec2Model ----------------------------
(***************************************************************************)
(* Model of FireDet (src/main.cpp): the per-frame fire/smoke pipeline of   *)
(* main(), its two detectors, the bounded history of fire masks, the       *)
(* growth rule, the smoke region filter and the consecutive-frame alert.   *)
(*                                                                         *)
(* Abstraction of images.  A frame is a resolution plus the colour of a    *)
(* fixed set of rectangular regions ("blocks") on a black background; the  *)
(* blocks are disjoint, lie inside every resolution of the model and are   *)
(* further apart than the largest structuring element, so every per-pixel  *)
(* operation of OpenCV acts on a block as it acts on each of its pixels,   *)
(* every block of a mask is one external contour, and the morphological    *)
(* opening and closing leave whole blocks unchanged.  The strokes drawn by *)
(* drawContours and putText (2 pixels wide) are kept as marks of the frame;*)
(* they are thinner than the 10x10 structuring element of detectSmoke.     *)
(***************************************************************************)
EXTENDS Integers, Sequences, FiniteSets, TLC

(***************************************************************************)
(* Bounds of the model.                                                    *)
(***************************************************************************)
\* frames a short stream delivers before it ends
MaxFrames == 5
\* frames a long stream delivers before it ends
MaxLong == 12

(***************************************************************************)
(* Program constants.                                                      *)
(***************************************************************************)
HISTORY_SIZE == 10
fireDetectionThreshold == 100
smokeDetectionThreshold == 1000
fireGrowthThreshold == 50
\* the literal 3 of the alert condition, once per counter
fireStreakRequired == 3
smokeStreakRequired == 3
\* threshold(gray, 200) of detectPotentialFire, threshold(diff, 15) of detectSmoke
brightThreshold == 200
motionThreshold == 15

(***************************************************************************)
(* Geometry of the blocks: width and height in pixels.  Blocks 1..6 are    *)
(* where the scenes of the model put fire, 7 and 8 where they put smoke.   *)
(***************************************************************************)
BlockW == <<5, 10, 10, 6, 6, 10, 41, 26>>
BlockH == <<2, 5, 6, 5, 5, 7, 31, 41>>
Blocks == 1..Len(BlockW)

Max2(a, b) == IF a >= b THEN a ELSE b
Min2(a, b) == IF a <= b THEN a ELSE b
Abs(x) == IF x >= 0 THEN x ELSE -x

RECURSIVE SumOver(_, _)
SumOver(S, f) ==
    IF S = {} THEN 0
    ELSE LET x == CHOOSE y \in S : TRUE IN f[x] + SumOver(S \ {x}, f)

(***************************************************************************)
(* Pixels are <<b, g, r>> with 8-bit channels.                             *)
(***************************************************************************)
Black == <<0, 0, 0>>
Flame == <<150, 220, 255>>
Grey150 == <<150, 150, 150>>
Grey110 == <<110, 110, 110>>

\* cv::cvtColor(COLOR_BGR2GRAY): 0.114 b + 0.587 g + 0.299 r, rounded
Gray(c) == (114 * c[1] + 587 * c[2] + 299 * c[3] + 500) \div 1000

\* cv::cvtColor(COLOR_BGR2HSV) for 8-bit images: <<h, s, v>>, h in 0..179
HSV(c) ==
    LET b == c[1]
        g == c[2]
        r == c[3]
        v == Max2(b, Max2(g, r))
        mn == Min2(b, Min2(g, r))
        d == v - mn
        s == IF v = 0 THEN 0 ELSE (255 * d + (v \div 2)) \div v
        deg == IF d = 0 THEN 0
               ELSE IF v = r THEN (360 + (60 * (g - b)) \div d) % 360
               ELSE IF v = g THEN 120 + (60 * (b - r)) \div d
               ELSE 240 + (60 * (r - g)) \div d
    IN  <<deg \div 2, s, v>>

\* cv::inRange on one pixel
InRange(p, lo, hi) == \A i \in 1..3 : lo[i] <= p[i] /\ p[i] <= hi[i]

(***************************************************************************)
(* cv::Mat values.  An empty Mat has no rows and no columns.               *)
(***************************************************************************)
EmptyFrame ==
    [rows |-> 0, cols |-> 0, px |-> [b \in Blocks |-> Black],
     outline |-> {}, text |-> FALSE]
EmptyMask == [rows |-> 0, cols |-> 0, on |-> {}]
IsEmpty(m) == m.rows = 0 \/ m.cols = 0
SameSize(a, b) == a.rows = b.rows /\ a.cols = b.cols

\* cv::countNonZero of a mask
CountNonZero(m) == SumOver(m.on, [b \in Blocks |-> BlockW[b] * BlockH[b]])

\* cv::contourArea of the external contour of block b: the polygon through
\* the centres of its corner pixels
ContourArea(b) == (BlockW[b] - 1) * (BlockH[b] - 1)


(***************************************************************************)
(* detectPotentialFire: pixels in the fire colour range AND brighter than  *)
(* brightThreshold in grey; opening and closing with the 5x5 ellipse keep  *)
(* whole blocks.                                                           *)
(***************************************************************************)
FireLo == <<0, 50, 200>>
FireHi == <<25, 255, 255>>
IsFirePixel(c) == InRange(HSV(c), FireLo, FireHi) /\ Gray(c) > brightThreshold

detectPotentialFire(f) ==
    [rows |-> f.rows, cols |-> f.cols,
     on |-> {b \in Blocks : IsFirePixel(f.px[b])}]

(***************************************************************************)
(* detectSmoke.  With an empty current or previous frame it returns an     *)
(* empty cv::Mat.  Otherwise cv::absdiff of the two grey images throws a   *)
(* cv::Exception when their sizes differ (SmokeThrows); main() catches     *)
(* nothing, so the exception ends the process.  When the sizes agree the   *)
(* mask is motion (grey difference above motionThreshold) AND grey colour. *)
(***************************************************************************)
SmokeLo == <<0, 0, 100>>
SmokeHi == <<179, 30, 200>>
IsSmokePixel(c) == InRange(HSV(c), SmokeLo, SmokeHi)
Moved(c, p) == Abs(Gray(c) - Gray(p)) > motionThreshold

\* variant: only the current frame is tested
SmokeDegrades_CurrentOnly(f, prev) == IsEmpty(f)
SmokeDegrades(f, prev) == IsEmpty(f) \/ IsEmpty(prev)
SmokeThrows(f, prev) == ~SmokeDegrades(f, prev) /\ ~SameSize(f, prev)

\* variant: a missing previous frame is read as a black frame
detectSmoke_BlackPrevious(f, prev) ==
    [rows |-> f.rows, cols |-> f.cols,
     on |-> {b \in Blocks : Moved(f.px[b], prev.px[b]) /\ IsSmokePixel(f.px[b])}]
detectSmoke(f, prev) ==
    IF SmokeDegrades(f, prev)
    THEN EmptyMask
    ELSE [rows |-> f.rows, cols |-> f.cols,
          on |-> {b \in Blocks : Moved(f.px[b], prev.px[b])
                                   /\ IsSmokePixel(f.px[b])}]

(***************************************************************************)
(* The frame history (a std::deque of fire masks): push_back, then         *)
(* pop_front when the size exceeds HISTORY_SIZE.                           *)
(***************************************************************************)
\* variants: eviction one push early; eviction one push late; eviction of
\* the newest old mask
PushHistory_OneMore(h, m) ==
    IF Len(h) + 1 > HISTORY_SIZE + 1 THEN Tail(Append(h, m)) ELSE Append(h, m)
PushHistory_OffByOne(h, m) ==
    IF Len(h) + 1 >= HISTORY_SIZE THEN Tail(Append(h, m)) ELSE Append(h, m)
PushHistory_EvictNewest(h, m) ==
    IF Len(h) + 1 > HISTORY_SIZE
    THEN Append(SubSeq(h, 1, Len(h) - 1), m) ELSE Append(h, m)
PushHistory(h, m) ==
    LET pushed == Append(h, m)
    IN  IF Len(pushed) > HISTORY_SIZE THEN Tail(pushed) ELSE pushed

(***************************************************************************)
(* The growth rule, evaluated after the push.                              *)
(***************************************************************************)
\* variants: the oldest mask is read only from an overfull window, which
\* never exists; the reference is the mask pushed just before the current one
PreviousFireArea_NeverFull(h) ==
    IF Len(h) > HISTORY_SIZE THEN CountNonZero(Head(h)) ELSE 0
PreviousFireArea_Newest(h) ==
    IF Len(h) > 1 THEN CountNonZero(h[Len(h) - 1]) ELSE 0
PreviousFireArea(h) == IF Len(h) > 1 THEN CountNonZero(Head(h)) ELSE 0
SignificantFireGrowth(cur, prevArea) == (cur - prevArea) > fireGrowthThreshold

(***************************************************************************)
(* The smoke regions: the external contours of the smoke mask whose area   *)
(* exceeds smokeDetectionThreshold.  cv::findContours of the empty mask    *)
(* finds no contour.                                                       *)
(***************************************************************************)
SignificantContours(m) ==
    {b \in m.on : ContourArea(b) > smokeDetectionThreshold}

(***************************************************************************)
(* The counters and the alert condition.                                   *)
(***************************************************************************)
\* variant: a large fire qualifies without growth
FireQualifies_AreaOnly(area, growth) == area > fireDetectionThreshold
FireQualifies(area, growth) == area > fireDetectionThreshold /\ growth
\* variant: a miss decrements the counter instead of resetting it
NextStreak_Decrement(cond, streak) ==
    IF cond THEN streak + 1 ELSE Max2(streak - 1, 0)
NextStreak(cond, streak) == IF cond THEN streak + 1 ELSE 0
\* The counters are C++ int (32 bits, signed).  Incrementing INT_MAX is a
\* signed overflow, which is undefined: the build either wraps to INT_MIN or
\* traps (-ftrapv, sanitizers) and the process ends.
INT_MAX == 2147483647
INT_MIN == -INT_MAX - 1
SignedOverflow(streak) ==
    {[trap |-> FALSE, value |-> INT_MIN], [trap |-> TRUE, value |-> streak]}
StreakResults(cond, streak) ==
    IF cond /\ streak = INT_MAX
    THEN SignedOverflow(streak)
    ELSE {[trap |-> FALSE, value |-> NextStreak(cond, streak)]}
\* variants: either counter suffices; one frame suffices
AlertCondition_Or(fs, ss) == fs >= 3 \/ ss >= 3
AlertCondition_One(fs, ss) == fs >= 1 /\ ss >= 1
AlertCondition(fs, ss) == fs >= fireStreakRequired /\ ss >= smokeStreakRequired

(***************************************************************************)
(* Drawing on the frame, in place.                                         *)
(***************************************************************************)
\* cv::drawContours of the significant contours, green, 2 pixels wide
DrawContours(f, regions) == [f EXCEPT !.outline = @ \cup regions]
\* cv::putText "FIRE ALERT!"
PutText(f) == [f EXCEPT !.text = TRUE]
\* cv::addWeighted(frame, 0.7, fireVisualization, 0.3, 0, frame), where the
\* visualization is 255 in every channel on the fire mask and 0 elsewhere
Blend(c, m) == [i \in 1..3 |-> (7 * c[i] + 3 * m + 5) \div 10]
AddWeighted(f, fire) ==
    [f EXCEPT !.px = [b \in Blocks |->
                        Blend(f.px[b], IF b \in fire.on THEN 255 ELSE 0)]]

(***************************************************************************)
(* The frame source.  A camera delivers frames of a set of scenes, in any  *)
(* order, and then an empty frame.  A scene lights the first `level` fire  *)
(* blocks and gives blocks 7 and 8 the colours c7 and c8.                  *)
(***************************************************************************)
VGA == <<480, 640>>
QVGA == <<240, 320>>

Scene(res, level, c7, c8) ==
    [rows |-> res[1], cols |-> res[2],
     px |-> [b \in Blocks |-> IF b <= level /\ b <= 6 THEN Flame
                              ELSE IF b = 7 THEN c7
                              ELSE IF b = 8 THEN c8
                              ELSE Black],
     outline |-> {}, text |-> FALSE]

Cameras == {"growth", "alert", "scenario", "long"}

CameraFrames(c) ==
    CASE c = "growth" ->
           {Scene(VGA, 0, Black, Black), Scene(VGA, 1, Black, Black),
            Scene(VGA, 2, Black, Black), Scene(VGA, 3, Black, Black),
            Scene(VGA, 5, Black, Black)}
      [] c = "alert" ->
           {Scene(VGA, 0, Black, Black), Scene(VGA, 3, Grey150, Black),
            Scene(VGA, 3, Grey110, Black), Scene(VGA, 3, Black, Grey150),
            Scene(QVGA, 3, Grey150, Black)}
      [] c = "scenario" ->
           {Scene(VGA, 0, Black, Black), Scene(VGA, 4, Black, Black),
            Scene(VGA, 6, Grey150, Black)}
      [] c = "long" ->
           {Scene(VGA, 0, Black, Black), Scene(VGA, 3, Grey150, Black)}

CameraLimit(c) == IF c = "long" THEN MaxLong ELSE MaxFrames

(***************************************************************************)
(* State: the variables of main() and the position in its loop.            *)
(*   delivered  the frames pulled from the source so far, as delivered      *)
(*   active     whether the alert was raised for the frame last decided     *)
(*   reported   per decided frame, what the loop computed for it            *)
(***************************************************************************)
VARIABLES cap, frame, prevFrame, frameHistory,
          consecutiveFireFrames, consecutiveSmokeFrames,
          potentialFire, smokeMask, currentFireArea, previousFireArea,
          significantFireGrowth, significantSmoke, active, pc, delivered,
          reported

vars == <<cap, frame, prevFrame, frameHistory,
          consecutiveFireFrames, consecutiveSmokeFrames,
          potentialFire, smokeMask, currentFireArea, previousFireArea,
          significantFireGrowth, significantSmoke, active, pc, delivered,
          reported>>

\* the variables declared inside the loop body
locals == <<potentialFire, smokeMask, currentFireArea, previousFireArea,
            significantFireGrowth, significantSmoke>>
counters == <<consecutiveFireFrames, consecutiveSmokeFrames>>

InitWith(cams) ==
    /\ cap \in cams
    /\ frame = EmptyFrame
    /\ prevFrame = EmptyFrame
    /\ frameHistory = <<>>
    /\ consecutiveFireFrames = 0
    /\ consecutiveSmokeFrames = 0
    /\ potentialFire = EmptyMask
    /\ smokeMask = EmptyMask
    /\ currentFireArea = 0
    /\ previousFireArea = 0
    /\ significantFireGrowth = FALSE
    /\ significantSmoke = FALSE
    /\ active = FALSE
    /\ pc = "capture"
    /\ delivered = <<>>
    /\ reported = <<>>

Init == InitWith(Cameras)

\* cap >> frame delivers a frame
Capture ==
    /\ pc = "capture"
    /\ Len(delivered) < CameraLimit(cap)
    /\ \E f \in CameraFrames(cap) :
         /\ frame' = f
         /\ delivered' = Append(delivered, f)
    /\ pc' = "detect"
    /\ UNCHANGED <<cap, prevFrame, frameHistory, counters, locals, active,
                   reported>>

\* variant: the empty frame does not leave the loop
EndOfStream_NoBreak ==
    /\ pc = "capture"
    /\ frame' = EmptyFrame
    /\ pc' = "detect"
    /\ UNCHANGED <<cap, prevFrame, frameHistory, counters, locals, active,
                   delivered, reported>>

\* cap >> frame delivers an empty frame: "End of video stream", break
EndOfStream ==
    /\ pc = "capture"
    /\ frame' = EmptyFrame
    /\ pc' = "done"
    /\ UNCHANGED <<cap, prevFrame, frameHistory, counters, locals, active,
                   delivered, reported>>

\* the two detectors return
Detect ==
    /\ pc = "detect"
    /\ ~SmokeThrows(frame, prevFrame)
    /\ potentialFire' = detectPotentialFire(frame)
    /\ smokeMask' = detectSmoke(frame, prevFrame)
    /\ pc' = "history"
    /\ UNCHANGED <<cap, frame, prevFrame, frameHistory, counters,
                   currentFireArea, previousFireArea, significantFireGrowth,
                   significantSmoke, active, delivered, reported>>

\* detectSmoke throws out of cv::absdiff; the exception is not caught
DetectThrows ==
    /\ pc = "detect"
    /\ SmokeThrows(frame, prevFrame)
    /\ potentialFire' = detectPotentialFire(frame)
    /\ pc' = "crashed"
    /\ UNCHANGED <<cap, frame, prevFrame, frameHistory, counters, smokeMask,
                   currentFireArea, previousFireArea, significantFireGrowth,
                   significantSmoke, active, delivered, reported>>

\* frameHistory.push_back(potentialFire.clone()); pop_front when too long
StoreHistory ==
    /\ pc = "history"
    /\ frameHistory' = PushHistory(frameHistory, potentialFire)
    /\ pc' = "growth"
    /\ UNCHANGED <<cap, frame, prevFrame, counters, locals, active, delivered, reported>>

\* "Analyze fire growth"
AnalyzeGrowth ==
    /\ pc = "growth"
    /\ currentFireArea' = CountNonZero(potentialFire)
    /\ previousFireArea' = PreviousFireArea(frameHistory)
    /\ significantFireGrowth' =
         SignificantFireGrowth(CountNonZero(potentialFire),
                               PreviousFireArea(frameHistory))
    /\ pc' = "regions"
    /\ UNCHANGED <<cap, frame, prevFrame, frameHistory, counters,
                   potentialFire, smokeMask, significantSmoke, active,
                   delivered, reported>>

\* "Detect smoke": the contours of the smoke mask, the significant ones drawn
FilterRegions ==
    /\ pc = "regions"
    /\ significantSmoke' = (SignificantContours(smokeMask) # {})
    /\ frame' = DrawContours(frame, SignificantContours(smokeMask))
    /\ pc' = "streaks"
    /\ UNCHANGED <<cap, prevFrame, frameHistory, counters, potentialFire,
                   smokeMask, currentFireArea, previousFireArea,
                   significantFireGrowth, active, delivered, reported>>

\* "Update consecutive frame counters"
UpdateStreaks ==
    /\ pc = "streaks"
    /\ \E f \in StreakResults(FireQualifies(currentFireArea,
                                             significantFireGrowth),
                               consecutiveFireFrames),
          s \in StreakResults(significantSmoke, consecutiveSmokeFrames) :
         /\ consecutiveFireFrames' = f.value
         /\ consecutiveSmokeFrames' = s.value
         /\ pc' = IF f.trap \/ s.trap THEN "crashed" ELSE "alert"
    /\ UNCHANGED <<cap, frame, prevFrame, frameHistory, locals, active,
                   delivered, reported>>

\* "Alert system": the message is printed and the text drawn, or neither
Alert ==
    /\ pc = "alert"
    /\ active' = AlertCondition(consecutiveFireFrames, consecutiveSmokeFrames)
    /\ frame' = IF AlertCondition(consecutiveFireFrames, consecutiveSmokeFrames)
                THEN PutText(frame) ELSE frame
    /\ reported' = Append(reported,
         [fireArea |-> currentFireArea,
          growth |-> significantFireGrowth,
          fireQualifies |-> FireQualifies(currentFireArea, significantFireGrowth),
          significantSmoke |-> significantSmoke,
          fireStreak |-> consecutiveFireFrames,
          smokeStreak |-> consecutiveSmokeFrames,
          active |-> AlertCondition(consecutiveFireFrames,
                                    consecutiveSmokeFrames)])
    /\ pc' = "present"
    /\ UNCHANGED <<cap, prevFrame, frameHistory, counters, locals, delivered>>

\* the fire overlay is blended into the frame, the frame is shown and cloned
\* into prevFrame
Present ==
    /\ pc = "present"
    /\ frame' = AddWeighted(frame, potentialFire)
    /\ prevFrame' = AddWeighted(frame, potentialFire)
    /\ pc' = "waitkey"
    /\ UNCHANGED <<cap, frameHistory, counters, locals, active, delivered, reported>>

\* cv::waitKey(30) < 0: no key, the loop goes round; the variables declared
\* in the body end with the iteration
NoKey ==
    /\ pc = "waitkey"
    /\ pc' = "capture"
    /\ potentialFire' = EmptyMask
    /\ smokeMask' = EmptyMask
    /\ currentFireArea' = 0
    /\ previousFireArea' = 0
    /\ significantFireGrowth' = FALSE
    /\ significantSmoke' = FALSE
    /\ UNCHANGED <<cap, frame, prevFrame, frameHistory, counters, active,
                   delivered, reported>>

\* variant: the key is polled inside the frame's processing
KeyPressed_AnyStep ==
    /\ pc \in {"detect", "history", "growth", "regions", "streaks", "alert",
               "present", "waitkey"}
    /\ pc' = "done"
    /\ UNCHANGED <<cap, frame, prevFrame, frameHistory, counters, locals,
                   active, delivered, reported>>

\* cv::waitKey(30) >= 0: a key was pressed, break
KeyPressed ==
    /\ pc = "waitkey"
    /\ pc' = "done"
    /\ UNCHANGED <<cap, frame, prevFrame, frameHistory, counters, locals,
                   active, delivered, reported>>

Next ==
    \/ Capture
    \/ EndOfStream
    \/ Detect
    \/ DetectThrows
    \/ StoreHistory
    \/ AnalyzeGrowth
    \/ FilterRegions
    \/ UpdateStreaks
    \/ Alert
    \/ Present
    \/ NoKey
    \/ KeyPressed

Spec == Init /\ [][Next]_vars

(***************************************************************************)
(* The same loop, late in a long run.  A source that keeps delivering the  *)
(* steady scene (a fire of 120 pixels and the grey patch, which reads as   *)
(* motion against the darkened previous frame) brings the loop, after k+1  *)
(* frames, k >= 10, to the state below with consecutiveSmokeFrames = k;    *)
(* InitLate takes the states whose k is LateMargin or fewer frames short   *)
(* of INT_MAX.  The logs `delivered` and `reported` restart empty there.   *)
(***************************************************************************)
LateMargin == 2
SteadyScene == Scene(VGA, 3, Grey150, Black)
SteadyPresented ==
    AddWeighted(DrawContours(SteadyScene, {7}), detectPotentialFire(SteadyScene))

LateState(k) ==
    /\ frame = SteadyPresented
    /\ prevFrame = SteadyPresented
    /\ frameHistory = [i \in 1..HISTORY_SIZE |-> detectPotentialFire(SteadyScene)]
    /\ consecutiveFireFrames = 0
    /\ consecutiveSmokeFrames = k
    /\ potentialFire = EmptyMask
    /\ smokeMask = EmptyMask
    /\ currentFireArea = 0
    /\ previousFireArea = 0
    /\ significantFireGrowth = FALSE
    /\ significantSmoke = FALSE
    /\ active = FALSE
    /\ pc = "capture"

InitLate ==
    /\ cap = "alert"
    /\ \E d \in 0..LateMargin : LateState(INT_MAX - d)
    /\ delivered = <<>>
    /\ reported = <<>>

SpecLate == InitLate /\ [][Next]_vars

(***************************************************************************)
(* Properties.                                                             *)
(***************************************************************************)
\* the fire mask and the fire area of every frame a camera can deliver,
\* computed once with detectPotentialFire and cv::countNonZero
AllSourceFrames == UNION {CameraFrames(c) : c \in Cameras}
FireMaskOfSource == [f \in AllSourceFrames |-> detectPotentialFire(f)]
FireAreaOfSource ==
    [f \in AllSourceFrames |-> CountNonZero(detectPotentialFire(f))]
\* the largest fire area each camera delivers
MaxFireAreaOfCamera ==
    [c \in Cameras |->
       LET areas == {FireAreaOfSource[f] : f \in CameraFrames(c)}
       IN  CHOOSE a \in areas : \A x \in areas : x <= a]

\* the current frame has been decided: its counters and its alert are set
Decided == pc \in {"present", "waitkey"}
\* the fire masks pushed so far: one per delivered frame, the current one
\* once StoreHistory has run
Pushes == IF pc \in {"detect", "history", "crashed"}
          THEN Len(delivered) - 1 ELSE Len(delivered)
PrevReported(i) ==
    IF i = 1 THEN [fireStreak |-> 0, smokeStreak |-> 0]
    ELSE [fireStreak |-> reported[i - 1].fireStreak,
          smokeStreak |-> reported[i - 1].smokeStreak]

\* C1 (alert activation): except between the counter update and the alert
\* decision of one frame, the alert is active exactly when both counters, as
\* updated by the frame last decided, are at least 3; so it is inactive on
\* every frame where either counter is below 3 and it turns active only on a
\* frame at which both are at least 3.
C1_AlertActivation ==
    /\ pc # "alert" =>
         (active <=> (consecutiveFireFrames >= 3 /\ consecutiveSmokeFrames >= 3))
    /\ \A i \in 1..Len(reported) :
         reported[i].active <=>
           (reported[i].fireStreak >= 3 /\ reported[i].smokeStreak >= 3)

\* the alert has just turned active: inactive on the frame before, both
\* counters at 3 on this one
C1_Witness ==
    /\ pc = "waitkey"
    /\ active
    /\ consecutiveFireFrames = 3
    /\ consecutiveSmokeFrames = 3
    /\ Len(reported) >= 2
    /\ ~reported[Len(reported) - 1].active

\* C2 (streak reset): on every decided frame each counter is 0 when its
\* condition is false on that frame, whatever it was before, and the previous
\* value plus 1 when the condition is true.
C2_StreakReset ==
    \A i \in 1..Len(reported) :
      /\ reported[i].fireStreak =
           (IF reported[i].fireArea > 100 /\ reported[i].growth
            THEN PrevReported(i).fireStreak + 1 ELSE 0)
      /\ reported[i].smokeStreak =
           (IF reported[i].significantSmoke
            THEN PrevReported(i).smokeStreak + 1 ELSE 0)

\* fireQualifies true, true, false: the fire counter goes 1, 2, 0
C2_Witness ==
    /\ Len(reported) >= 3
    /\ \E i \in 1..(Len(reported) - 2) :
         /\ reported[i].fireQualifies /\ reported[i].fireStreak = 1
         /\ reported[i + 1].fireQualifies /\ reported[i + 1].fireStreak = 2
         /\ ~reported[i + 2].fireQualifies /\ reported[i + 2].fireStreak = 0

\* the reference area of the growth rule, read from the window
C3_Reference ==
    IF Len(frameHistory) > 1 THEN CountNonZero(frameHistory[1]) ELSE 0
C3_Areas == [i \in 1..Len(reported) |-> reported[i].fireArea]
C3_Growths == [i \in 1..Len(reported) |-> reported[i].growth]

\* C3 (growth rule): once the growth of a frame is evaluated,
\* significantFireGrowth is true exactly when the set-pixel count of the
\* current fire mask exceeds by more than 50 the count of the oldest mask in
\* the window (0 when the window holds one mask); masks with counts
\* 0, 10, 60, 120, 180 give false, false, true, true, true.
C3_GrowthRule ==
    /\ pc \in {"regions", "streaks", "alert", "present", "waitkey"} =>
         /\ currentFireArea = FireAreaOfSource[delivered[Len(delivered)]]
         /\ previousFireArea = C3_Reference
         /\ significantFireGrowth <=> (currentFireArea - C3_Reference > 50)
    /\ C3_Areas = <<0, 10, 60, 120, 180>> =>
         C3_Growths = <<FALSE, FALSE, TRUE, TRUE, TRUE>>

C3_Witness ==
    /\ C3_Areas = <<0, 10, 60, 120, 180>>
    /\ C3_Growths = <<FALSE, FALSE, TRUE, TRUE, TRUE>>

\* C4 (history bound): after n pushes the window holds min(n, 10) masks, so
\* never more than 10.
C4_HistoryBound ==
    /\ Len(frameHistory) <= 10
    /\ Len(frameHistory) = Min2(Pushes, 10)

\* more masks were pushed than the window holds
C4_Witness == Pushes >= 12 /\ Len(frameHistory) = 10

\* C5 (FIFO eviction): after n pushes the window holds exactly the fire masks
\* of the last min(n, 10) frames, in arrival order.
C5_FifoEviction ==
    \A i \in 1..Len(frameHistory) :
      /\ Pushes - Len(frameHistory) + i \in 1..Len(delivered)
      /\ frameHistory[i] =
           FireMaskOfSource[delivered[Pushes - Len(frameHistory) + i]]

\* two masks were evicted, and the oldest mask kept differs from both the
\* first mask pushed and the newest one
C5_Witness ==
    /\ Pushes = 12
    /\ Len(frameHistory) = 10
    /\ frameHistory[1] # FireMaskOfSource[delivered[1]]
    /\ frameHistory[1] # frameHistory[10]
    /\ frameHistory[1] # frameHistory[2]

\* C6 as stated: the smoke mask of the first frame (no previous frame) is
\* all zero and has the dimensions of the current frame.
C6_MaskOfFrameSize ==
    (Len(delivered) = 1 /\ pc \in {"history", "growth", "regions"}) =>
      (smokeMask.on = {} /\ SameSize(smokeMask, frame))

\* C6 (degradation), amended: with no previous frame detectSmoke returns the
\* empty cv::Mat (no rows, no columns, no set pixel) and nothing throws; the
\* first frame has no significant smoke and leaves the smoke counter at 0.
C6_Degradation ==
    Len(delivered) <= 1 =>
      /\ pc # "crashed"
      /\ smokeMask = EmptyMask
      /\ ~significantSmoke
      /\ consecutiveSmokeFrames = 0
      /\ \A i \in 1..Len(reported) :
           ~reported[i].significantSmoke /\ reported[i].smokeStreak = 0

\* the first frame shows a grey patch large enough to be significant smoke,
\* and has been decided
C6_Witness ==
    /\ Len(delivered) = 1
    /\ Len(reported) = 1
    /\ IsEmpty(smokeMask)
    /\ ~IsEmpty(frame)
    /\ IsSmokePixel(delivered[1].px[7])
    /\ ContourArea(7) > 1000

\* C7 (frame mismatch) as stated: a change of resolution between the
\* previous and the current frame reaches no crash.
C7_NoCrashOnMismatch ==
    ~(pc = "crashed" /\ ~SameSize(frame, prevFrame))

\* C8 (end of stream): the step that receives an empty frame ends the loop
\* and changes nothing else: no detector output, no push, no counter, no
\* alert; and no step follows the end of the loop.
C8_EndOfStream ==
    [][/\ pc # "done"
       /\ (pc = "capture" /\ IsEmpty(frame')) =>
            /\ pc' = "done"
            /\ UNCHANGED <<frameHistory, consecutiveFireFrames,
                           consecutiveSmokeFrames, potentialFire, smokeMask,
                           currentFireArea, previousFireArea,
                           significantFireGrowth, significantSmoke, active,
                           prevFrame, delivered, reported>>]_vars

\* the stream ended after frames were processed, the last one with the alert
C8_Witness ==
    /\ pc = "done"
    /\ IsEmpty(frame)
    /\ Len(frameHistory) >= 4
    /\ active

\* C9 (insufficient streak at start): the alert is inactive after each of
\* the first 3 frames, and after n frames the smoke counter is at most n - 1.
C9_InsufficientStreak ==
    /\ Len(delivered) <= 3 => ~active
    /\ consecutiveSmokeFrames <= Max2(Len(delivered) - 1, 0)
    /\ \A i \in 1..Len(reported) :
         /\ i <= 3 => ~reported[i].active
         /\ reported[i].smokeStreak <= i - 1

\* the alert is active on frame 4
C9_Witness ==
    /\ Len(delivered) = 4
    /\ Len(reported) = 4
    /\ reported[4].active
    /\ reported[4].smokeStreak = 3

\* the first decided frame on which fireQualifies and significantSmoke hold
C10_FirstCoincidence(i) ==
    /\ i \in 1..Len(reported)
    /\ reported[i].fireQualifies /\ reported[i].significantSmoke
    /\ \A j \in 1..(i - 1) :
         ~(reported[j].fireQualifies /\ reported[j].significantSmoke)

\* C10 as stated, for required streaks of 1: the alert is active on the
\* first frame on which fireQualifies and significantSmoke both hold.
C10_ActiveOnFirstCoincidence ==
    \A i \in 1..Len(reported) : C10_FirstCoincidence(i) => reported[i].active

\* C10 (streak requirement), amended: the required streak lengths are the
\* literal 3 of the alert condition and nothing configures them; the alert
\* is active on a frame exactly when fireQualifies and significantSmoke hold
\* on that frame and on the two frames before it, so it is inactive on the
\* first frame on which both hold.
C10_FixedRequirement ==
    \A i \in 1..Len(reported) :
      /\ reported[i].active <=>
           /\ i >= 3
           /\ \A j \in (i - 2)..i :
                reported[j].fireQualifies /\ reported[j].significantSmoke
      /\ C10_FirstCoincidence(i) => ~reported[i].active

\* the end-to-end scenario: a black frame, a fire of 150 pixels, a fire of
\* 250 pixels with a grey patch of area 1200; frame 3 qualifies, no alert
C10_Witness ==
    /\ delivered = <<Scene(VGA, 0, Black, Black), Scene(VGA, 4, Black, Black),
                     Scene(VGA, 6, Grey150, Black)>>
    /\ Len(reported) = 3
    /\ reported[2].fireArea = 150
    /\ reported[3].fireArea = 250
    /\ C10_FirstCoincidence(3)
    /\ ~reported[3].active

\* the frame delivered as frame i of the stream
SourceFrame(i) == delivered[i]

\* C11 (detectors independent of alert and presentation) as stated: the fire
\* mask of frame n is the detector's mask of source frame n, the smoke mask
\* of frame n is the detector's mask of source frames n and n-1 as delivered,
\* and the previous frame the smoke detector reads carries nothing written
\* by the alert decision (no alert text).
C11_DetectorsReadSourceFrames ==
    LET n == Len(delivered) IN
    /\ (pc \in {"history", "growth", "regions"} /\ n >= 1) =>
         potentialFire = detectPotentialFire(SourceFrame(n))
    /\ (pc \in {"history", "growth", "regions"} /\ n >= 2) =>
         smokeMask = detectSmoke(SourceFrame(n), SourceFrame(n - 1))
    /\ pc = "detect" => ~prevFrame.text

\* C12 (frame immutability) as stated: while a frame is processed it stays
\* the frame pulled from the source, and the frame retained as previous frame
\* is exactly the frame pulled in the iteration that retained it.
C12_FrameImmutable ==
    LET n == Len(delivered) IN
    /\ (pc \in {"detect", "history", "growth", "regions", "streaks", "alert",
                "present", "waitkey"}) => frame = SourceFrame(n)
    /\ (pc = "waitkey") => prevFrame = SourceFrame(n)
    /\ (pc \in {"detect", "history", "growth", "regions", "streaks", "alert",
                "present"} /\ n >= 2) => prevFrame = SourceFrame(n - 1)

\* the conjunction of the two per-frame conditions, as reported for frame i
C13_Both(i) == reported[i].fireQualifies /\ reported[i].significantSmoke

\* C13 (alert drop and re-arm): a frame m on which fireQualifies or
\* significantSmoke is false leaves the alert inactive on frames m, m+1 and
\* m+2, also when it was active on frame m-1; the alert is active on a later
\* frame only if both conditions held on that frame and the two before it.
C13_DropAndRearm ==
    \A m \in 1..Len(reported) :
      ~C13_Both(m) =>
        /\ \A k \in m..Min2(m + 2, Len(reported)) : ~reported[k].active
        /\ (m + 3 <= Len(reported) /\ reported[m + 3].active) =>
             (C13_Both(m + 1) /\ C13_Both(m + 2) /\ C13_Both(m + 3))

\* the alert was active, a frame broke it, and it is active again on the
\* third frame after the break
C13_Witness ==
    \E m \in 2..Len(reported) :
      /\ reported[m - 1].active
      /\ ~C13_Both(m)
      /\ m + 3 <= Len(reported)
      /\ reported[m + 3].active

\* the set-pixel count of the fire mask of source frame i
C14_AreaOfFrame(i) == FireAreaOfSource[SourceFrame(i)]

\* C14 (push before growth): when growth is evaluated and until the frame is
\* done, the window ends with the current fire mask and the counters of the
\* frame are not yet updated when growth is read; the reference area is 0 on
\* frame 1, the area of frame 1 on frames 2..10 and the area of frame n-9 on
\* every frame n > 10.
C14_PushBeforeGrowth ==
    LET n == Len(delivered) IN
    /\ pc \in {"growth", "regions", "streaks", "alert", "present", "waitkey"} =>
         /\ Len(frameHistory) >= 1
         /\ frameHistory[Len(frameHistory)] = potentialFire
    /\ pc \in {"growth", "regions", "streaks"} => Len(reported) = n - 1
    /\ pc \in {"regions", "streaks", "alert", "present", "waitkey"} =>
         previousFireArea =
           (IF n = 1 THEN 0
            ELSE IF n <= 10 THEN C14_AreaOfFrame(1)
            ELSE C14_AreaOfFrame(n - 9))

\* frame 12 is compared with frame 3, whose fire area differs from frame 2's
C14_Witness ==
    /\ Len(delivered) = 12
    /\ pc = "regions"
    /\ C14_AreaOfFrame(3) # C14_AreaOfFrame(2)
    /\ previousFireArea = C14_AreaOfFrame(3)

\* the positions at which the loop is between two frames or has left
C15_BetweenFrames == pc \in {"capture", "waitkey", "done"}

\* the step order of one iteration
C15_Follows(a, b) ==
    \/ a = "capture" /\ b \in {"detect", "done"}
    \/ a = "detect" /\ b \in {"history", "crashed"}
    \/ a = "history" /\ b = "growth"
    \/ a = "growth" /\ b = "regions"
    \/ a = "regions" /\ b = "streaks"
    \/ a = "streaks" /\ b = "alert"
    \/ a = "alert" /\ b = "present"
    \/ a = "present" /\ b = "waitkey"
    \/ a = "waitkey" /\ b \in {"capture", "done"}

\* C15 (frame-synchronous processing, cooperative stop): the steps of an
\* accepted frame run in the order detectors, history push, growth, regions,
\* counters, alert, presentation with retention; the stop signal is read and
\* the next frame requested only between frames, when the last accepted
\* frame has been pushed, decided and retained; a key press ends the loop
\* only there.  (An exception out of detectSmoke is no stop signal: it ends
\* the process in "crashed", see C7.)
C15_FrameSynchronous ==
    [][/\ C15_Follows(pc, pc')
       /\ delivered' # delivered => pc = "capture"
       /\ (C15_BetweenFrames' /\ Len(delivered') >= 1) =>
            /\ Len(reported') = Len(delivered')
            /\ Len(frameHistory') = Min2(Len(delivered'), 10)
            /\ frameHistory'[Len(frameHistory')] =
                 FireMaskOfSource[SourceFrame(Len(delivered))']
            /\ ~IsEmpty(prevFrame')
            /\ SameSize(prevFrame', SourceFrame(Len(delivered))')
       /\ (pc' = "done" /\ ~IsEmpty(frame')) => pc = "waitkey"]_vars

\* a key press ended the loop after the fourth frame was fully processed
C15_Witness ==
    /\ pc = "done"
    /\ ~IsEmpty(frame)
    /\ Len(delivered) = 4
    /\ Len(reported) = 4
    /\ Len(frameHistory) = 4

\* the fire area of the oldest mask in the window when frame i is evaluated
C16_OldestArea(i) ==
    IF i = 1 THEN 0
    ELSE FireAreaOfSource[SourceFrame(Max2(1, i - 9))]

C17_MaxFireArea == MaxFireAreaOfCamera[cap]

\* the most consecutive frames on which a fire of area at most N can qualify:
\* a frame past the 10th qualifies only if it exceeds frame n-9 by more than
\* 50, and a qualifying frame has more than 100 fire pixels
C17_StreakBound(N) ==
    IF N <= 100 THEN 0 ELSE 9 * ((N - 101) \div 51 + 1)

\* C17 (the alert cannot stay active forever): with the fire area bounded by
\* N, fireQualifies holds on at most C17_StreakBound(N) consecutive frames,
\* so the alert, which needs 3 of them first, on at most that number less 2;
\* a longer run would need the fire area to exceed N.
C17_ActiveRunBounded ==
    LET N == C17_MaxFireArea
        B == C17_StreakBound(N)
    IN  \A i \in 1..Len(reported) :
          /\ reported[i].fireArea <= N
          /\ reported[i].fireStreak <= B
          /\ \A k \in 1..i :
               (\A j \in k..i : reported[j].active) =>
                 i - k + 1 <= Max2(B - 2, 0)

\* a fire of at most 120 pixels: the alert was active on the 7 frames 4..10,
\* the fire counter reached 9 and frame 11, with the same fire, is inactive
C17_Witness ==
    /\ C17_MaxFireArea = 120
    /\ Len(reported) >= 11
    /\ \A j \in 4..10 : reported[j].active
    /\ reported[10].fireStreak = 9
    /\ reported[11].fireArea = 120
    /\ ~reported[11].active

\* the loop of Spec passes through LateState(k) for small k: after 12 frames
\* of the steady scene the state is LateState(11)
LateStateOfShortRun == Len(delivered) = 12 /\ LateState(11)

\* C18 (streak counter invariant) on runs from the start, within the bounds:
\* the counters start at 0 with the alert off, stay non-negative, the fire
\* counter is at most the number of frames decided and the smoke counter at
\* most that number less 1.
C18_WithinShortRuns ==
    /\ consecutiveFireFrames >= 0 /\ consecutiveSmokeFrames >= 0
    /\ consecutiveFireFrames <= Len(reported) + (IF pc = "alert" THEN 1 ELSE 0)
    /\ consecutiveSmokeFrames <= Max2(Len(delivered) - 1, 0)
    /\ Len(delivered) = 0 =>
         (consecutiveFireFrames = 0 /\ consecutiveSmokeFrames = 0 /\ ~active)

\* C18 (streak counter invariant) as stated for 32-bit counters on an
\* arbitrarily long qualifying run: both counters stay non-negative, the
\* counter update of a frame sets each to its old value plus 1 or to 0, and
\* no other step changes them.
C18_StreakInvariant ==
    [][/\ consecutiveFireFrames' >= 0
       /\ consecutiveSmokeFrames' >= 0
       /\ pc = "streaks" =>
            /\ pc' = "alert"
            /\ (consecutiveFireFrames' = 0
                  \/ consecutiveFireFrames' - 1 = consecutiveFireFrames)
            /\ (consecutiveSmokeFrames' = 0
                  \/ consecutiveSmokeFrames' - 1 = consecutiveSmokeFrames)
       /\ pc # "streaks" =>
            UNCHANGED <<consecutiveFireFrames, consecutiveSmokeFrames>>]_vars

=============================================================================
